---- MODULE Spec2Model ----
(***************************************************************************)
(* BBH HMS: the update trigger (UpdaterService) and the session-based      *)
(* authentication (AuthService, AuthGuard, RolesGuard) as state machines.  *)
(*                                                                         *)
(* Node.js runs one callback at a time: the code between two awaits is one *)
(* atomic step, and every await of an external collaborator (filesystem,   *)
(* git subprocess, PostgreSQL, Redis) is a point where other requests and  *)
(* the environment interleave.                                             *)
(***************************************************************************)
EXTENDS Integers, Sequences, FiniteSets, TLC

(***************************************************************************)
(* Bounds of the model.                                                    *)
(***************************************************************************)
NumCallers == 2
MaxCommit == 2

Callers == 1..NumCallers
Commits == 0..MaxCommit

(***************************************************************************)
(* UpdaterService: constants and state.                                    *)
(***************************************************************************)
WEBSITE_MOUNT == "/mnt/website"
Unknown == -1
NoCommit == Unknown - 1
NoError == "none"

VARIABLES
    isUpdating,     \* UpdaterService.isUpdating
    pc,             \* position of each pullWebsiteUpdate invocation
    beforeCommit,   \* local beforeCommit of each invocation
    afterCommit,    \* local afterCommit of each invocation
    branch,         \* local branch of each invocation
    error,          \* message of the error caught by the invocation
    updAudit,       \* audit writes the invocation has attempted, in order
    execs,          \* external commands the invocation has started, in order
    result,         \* what the invocation is about to return or throw
    lastOutcome,    \* what the caller's last invocation returned or threw
    mountExists,    \* filesystem: /mnt/website is accessible
    mountHasGit,    \* filesystem: /mnt/website/.git is accessible (then so is the mount)
    localHead,      \* HEAD of the checkout in /mnt/website
    remoteHead,     \* HEAD of the upstream branch
    status          \* the getWebsiteStatus invocation: position, reads, answer

updLocals == <<beforeCommit, afterCommit, branch, error>>
updEnv == <<mountExists, mountHasGit, localHead, remoteHead>>
updTrace == <<updAudit, execs, result, lastOutcome>>
updVars == <<isUpdating, pc, updLocals, updTrace, updEnv, status>>

VARIABLES
    users,      \* prisma.user: id -> [is_active, role, last_login_at]
    store,      \* Redis: session id -> [user, role, ttl]; ttl = 0: no such key
    minted,     \* number of session ids the store has generated
    req         \* the request being served

authVars == <<users, store, minted, req>>

NoResult == [kind |-> "none", commit |-> NoCommit, message |-> NoError]

NoStatus ==
    [pc |-> "idle", validation |-> "pending", reads |-> <<>>, branch |-> "none",
     commit |-> NoCommit, isClean |-> FALSE, lastModified |-> "none", outcome |-> "none"]

InFlight == {p \in Callers : pc[p] # "idle"}

UpdaterInit ==
    /\ isUpdating = FALSE
    /\ pc = [p \in Callers |-> "idle"]
    /\ beforeCommit = [p \in Callers |-> NoCommit]
    /\ afterCommit = [p \in Callers |-> NoCommit]
    /\ branch = [p \in Callers |-> "none"]
    /\ error = [p \in Callers |-> NoError]
    /\ updAudit = [p \in Callers |-> <<>>]
    /\ execs = [p \in Callers |-> <<>>]
    /\ result = [p \in Callers |-> NoResult]
    /\ lastOutcome = [p \in Callers |-> "none"]
    /\ status = NoStatus
    /\ mountExists = TRUE
    /\ mountHasGit = TRUE
    /\ localHead = 0
    /\ remoteHead = 0

(***************************************************************************)
(* AuditService.log: the write may fail; the failure is caught and logged, *)
(* never rethrown, so the call always returns.  A caller awaits it outside *)
(* any try block of its own, or inside one whose handler is given with the *)
(* caller.  An entry records the event and whether it was written.         *)
(***************************************************************************)
AuditLogRethrows(written) == IF written THEN "returned" ELSE "thrown"

AuditLog(written) == "returned"

NoValue == [commit |-> NoCommit, branch |-> "none", error |-> NoError]

AuditEntry(action, by, written, oldCommit, newValue) ==
    [action |-> action, performedById |-> by, written |-> written,
     oldCommit |-> oldCommit, newValue |-> newValue]

(***************************************************************************)
(* pullWebsiteUpdate, step 1: the mutex check and the flag set, with no    *)
(* await between them.  A rejected call throws before the try block, so    *)
(* neither catch nor finally runs for it: it is over in this one step.     *)
(***************************************************************************)
CallWithoutMutex(p) ==
    /\ pc[p] = "idle"
    /\ isUpdating' = TRUE
    /\ pc' = [pc EXCEPT ![p] = "validate"]
    /\ lastOutcome' = [lastOutcome EXCEPT ![p] = "none"]
    /\ UNCHANGED <<updLocals, updAudit, execs, result, updEnv>>
    /\ UNCHANGED <<status, authVars>>

CallInsideTry(p) ==
    /\ pc[p] = "idle"
    /\ IF isUpdating
       THEN /\ lastOutcome' = [lastOutcome EXCEPT ![p] = "UpdateInProgress"]
            /\ isUpdating' = FALSE
            /\ UNCHANGED pc
       ELSE /\ isUpdating' = TRUE
            /\ pc' = [pc EXCEPT ![p] = "validate"]
            /\ lastOutcome' = [lastOutcome EXCEPT ![p] = "none"]
    /\ UNCHANGED <<updLocals, updAudit, execs, result, updEnv>>
    /\ UNCHANGED <<status, authVars>>

CallSkippingValidation(p) ==
    /\ pc[p] = "idle"
    /\ IF isUpdating
       THEN /\ lastOutcome' = [lastOutcome EXCEPT ![p] = "UpdateInProgress"]
            /\ UNCHANGED <<isUpdating, pc>>
       ELSE /\ isUpdating' = TRUE
            /\ pc' = [pc EXCEPT ![p] = "before"]
            /\ lastOutcome' = [lastOutcome EXCEPT ![p] = "none"]
    /\ UNCHANGED <<updLocals, updAudit, execs, result, updEnv>>
    /\ UNCHANGED <<status, authVars>>

Call(p) ==
    /\ pc[p] = "idle"
    /\ IF isUpdating
       THEN /\ lastOutcome' = [lastOutcome EXCEPT ![p] = "UpdateInProgress"]
            /\ UNCHANGED <<isUpdating, pc>>
       ELSE /\ isUpdating' = TRUE
            /\ pc' = [pc EXCEPT ![p] = "validate"]
            /\ lastOutcome' = [lastOutcome EXCEPT ![p] = "none"]
    /\ UNCHANGED <<updLocals, updAudit, execs, result, updEnv>>
    /\ UNCHANGED <<status, authVars>>

(***************************************************************************)
(* validateMountPoint: path.resolve of an absolute path is the path        *)
(* itself; then fs.access of the directory and of its .git entry.          *)
(***************************************************************************)
Resolve(mountPath) == mountPath

ValidateMountPoint(mountPath) ==
    IF Resolve(mountPath) # WEBSITE_MOUNT THEN "Invalid mount path"
    ELSE IF ~mountExists THEN "Website mount point is not accessible"
    ELSE IF ~mountHasGit THEN "Website directory is not a git repository"
    ELSE NoError

ValidateOutsideTry(p) ==
    /\ pc[p] = "validate"
    /\ LET e == ValidateMountPoint(WEBSITE_MOUNT) IN
       IF e = NoError
       THEN /\ pc' = [pc EXCEPT ![p] = "before"]
            /\ UNCHANGED lastOutcome
       ELSE /\ pc' = [pc EXCEPT ![p] = "idle"]
            /\ lastOutcome' = [lastOutcome EXCEPT ![p] = "UpdateFailed"]
    /\ UNCHANGED <<isUpdating, updLocals, updAudit, execs, result, updEnv>>
    /\ UNCHANGED <<status, authVars>>

Validate(p) ==
    /\ pc[p] = "validate"
    /\ LET e == ValidateMountPoint(WEBSITE_MOUNT) IN
       IF e = NoError
       THEN /\ pc' = [pc EXCEPT ![p] = "before"]
            /\ UNCHANGED error
       ELSE /\ pc' = [pc EXCEPT ![p] = "catch"]
            /\ error' = [error EXCEPT ![p] = e]
    /\ UNCHANGED <<isUpdating, beforeCommit, afterCommit, branch, updTrace, updEnv>>
    /\ UNCHANGED <<status, authVars>>

(***************************************************************************)
(* getGitCommit / getGitBranch: a failing or timed-out subprocess is       *)
(* caught and yields 'unknown'.                                            *)
(***************************************************************************)
Exec(p, cmd, exit, output) ==
    [execs EXCEPT ![p] = Append(@, [cmd |-> cmd, cwd |-> WEBSITE_MOUNT, exit |-> exit,
                                    output |-> output])]


RevParseOutcomes == {"ok", "Command failed: git rev-parse"}

GetGitCommit(exit) == IF exit = "ok" THEN localHead ELSE Unknown

GetGitBranch(exit) == IF exit = "ok" THEN "main" ELSE "unknown"

GetBefore(p) ==
    /\ pc[p] = "before"
    /\ \E o \in RevParseOutcomes :
         /\ beforeCommit' = [beforeCommit EXCEPT ![p] = GetGitCommit(o)]
         /\ execs' = Exec(p, "git rev-parse --short HEAD", o, GetGitCommit(o))
    /\ pc' = [pc EXCEPT ![p] = "pull"]
    /\ UNCHANGED <<isUpdating, afterCommit, branch, error, updAudit, result, lastOutcome, updEnv>>
    /\ UNCHANGED <<status, authVars>>

(***************************************************************************)
(* execAsync('git pull --ff-only', {cwd, timeout: GIT_TIMEOUT_MS}): the    *)
(* pull fast-forwards the checkout, fails, or is killed at the timeout.    *)
(***************************************************************************)
PullOutcomes == {"ok", "Command failed: git pull --ff-only", "Command timed out"}

(* const output = [stdout, stderr].filter(Boolean).join('\n').trim() *)
PullOutput(exit) ==
    IF exit # "ok" THEN exit
    ELSE IF localHead = remoteHead THEN "Already up to date."
    ELSE "Fast-forward"

PullIgnoringFailure(p) ==
    /\ pc[p] = "pull"
    /\ \E o \in PullOutcomes :
         /\ execs' = Exec(p, "git pull --ff-only", o, PullOutput(o))
         /\ localHead' = IF o = "ok" THEN remoteHead ELSE localHead
         /\ pc' = [pc EXCEPT ![p] = "after"]
         /\ UNCHANGED error
    /\ UNCHANGED <<isUpdating, beforeCommit, afterCommit, branch, updAudit,
                   result, lastOutcome, mountExists, mountHasGit, remoteHead>>
    /\ UNCHANGED <<status, authVars>>

PullWithoutTimeout(p) ==
    /\ pc[p] = "pull"
    /\ \E o \in PullOutcomes :
         /\ execs' = Exec(p, "git pull --ff-only", o, PullOutput(o))
         /\ IF o = "ok"
            THEN /\ localHead' = remoteHead
                 /\ pc' = [pc EXCEPT ![p] = "after"]
                 /\ UNCHANGED error
            ELSE IF o = "Command timed out"
            THEN /\ pc' = [pc EXCEPT ![p] = "pulling"]
                 /\ UNCHANGED <<error, localHead>>
            ELSE /\ pc' = [pc EXCEPT ![p] = "catch"]
                 /\ error' = [error EXCEPT ![p] = o]
                 /\ UNCHANGED localHead
    /\ UNCHANGED <<isUpdating, beforeCommit, afterCommit, branch, updAudit,
                   result, lastOutcome, mountExists, mountHasGit, remoteHead>>
    /\ UNCHANGED <<status, authVars>>

Pull(p) ==
    /\ pc[p] = "pull"
    /\ \E o \in PullOutcomes :
         /\ execs' = Exec(p, "git pull --ff-only", o, PullOutput(o))
         /\ IF o = "ok"
            THEN /\ localHead' = remoteHead
                 /\ pc' = [pc EXCEPT ![p] = "after"]
                 /\ UNCHANGED error
            ELSE /\ pc' = [pc EXCEPT ![p] = "catch"]
                 /\ error' = [error EXCEPT ![p] = o]
                 /\ UNCHANGED localHead
    /\ UNCHANGED <<isUpdating, beforeCommit, afterCommit, branch, updAudit,
                   result, lastOutcome, mountExists, mountHasGit, remoteHead>>
    /\ UNCHANGED <<status, authVars>>

GetAfter(p) ==
    /\ pc[p] = "after"
    /\ \E o \in RevParseOutcomes :
         /\ afterCommit' = [afterCommit EXCEPT ![p] = GetGitCommit(o)]
         /\ execs' = Exec(p, "git rev-parse --short HEAD", o, GetGitCommit(o))
    /\ pc' = [pc EXCEPT ![p] = "branch"]
    /\ UNCHANGED <<isUpdating, beforeCommit, branch, error, updAudit, result, lastOutcome, updEnv>>
    /\ UNCHANGED <<status, authVars>>

GetBranch(p) ==
    /\ pc[p] = "branch"
    /\ \E o \in RevParseOutcomes :
         /\ branch' = [branch EXCEPT ![p] = GetGitBranch(o)]
         /\ execs' = Exec(p, "git rev-parse --abbrev-ref HEAD", o, GetGitBranch(o))
    /\ pc' = [pc EXCEPT ![p] = "audit"]
    /\ UNCHANGED <<isUpdating, beforeCommit, afterCommit, error, updAudit, result, lastOutcome, updEnv>>
    /\ UNCHANGED <<status, authVars>>

(***************************************************************************)
(* The audit write of the success path (WEBSITE_UPDATE) and of the catch   *)
(* block (WEBSITE_UPDATE_FAILED), each awaited while the flag is held.     *)
(***************************************************************************)
AuditSuccessWithoutOld(p) ==
    /\ pc[p] = "audit"
    /\ \E w \in BOOLEAN :
         updAudit' = [updAudit EXCEPT ![p] =
                Append(@, AuditEntry("WEBSITE_UPDATE", p, w, NoCommit,
                                     [commit |-> afterCommit[p], branch |-> branch[p],
                                      error |-> NoError]))]
    /\ result' = [result EXCEPT ![p] =
            [kind |-> "success", commit |-> afterCommit[p], message |-> NoError]]
    /\ pc' = [pc EXCEPT ![p] = "finally"]
    /\ UNCHANGED <<isUpdating, beforeCommit, afterCommit, branch, error, execs,
                   lastOutcome, updEnv>>
    /\ UNCHANGED <<status, authVars>>

AuditSuccess(p) ==
    /\ pc[p] = "audit"
    /\ \E w \in BOOLEAN :
         /\ updAudit' = [updAudit EXCEPT ![p] =
                Append(@, AuditEntry("WEBSITE_UPDATE", p, w, beforeCommit[p],
                                     [commit |-> afterCommit[p], branch |-> branch[p],
                                      error |-> NoError]))]
         /\ IF AuditLog(w) = "returned"
            THEN /\ result' = [result EXCEPT ![p] =
                        [kind |-> "success", commit |-> afterCommit[p],
                         message |-> NoError]]
                 /\ pc' = [pc EXCEPT ![p] = "finally"]
                 /\ UNCHANGED error
            ELSE /\ error' = [error EXCEPT ![p] = "Audit write failed"]
                 /\ pc' = [pc EXCEPT ![p] = "catch"]
                 /\ UNCHANGED result
    /\ UNCHANGED <<isUpdating, beforeCommit, afterCommit, branch, execs, lastOutcome, updEnv>>
    /\ UNCHANGED <<status, authVars>>

AuditFailureOfPullOnly(p) ==
    /\ pc[p] = "catch"
    /\ \E w \in BOOLEAN :
         /\ updAudit' = [updAudit EXCEPT ![p] =
                IF error[p] \in PullOutcomes
                THEN Append(@, AuditEntry("WEBSITE_UPDATE_FAILED", p, w, NoCommit,
                                          [NoValue EXCEPT !.error = error[p]]))
                ELSE @]
         /\ result' = [result EXCEPT ![p] =
                [kind |-> "UpdateFailed", commit |-> NoCommit, message |-> error[p]]]
    /\ pc' = [pc EXCEPT ![p] = "finally"]
    /\ UNCHANGED <<isUpdating, updLocals, execs, lastOutcome, updEnv>>
    /\ UNCHANGED <<status, authVars>>

AuditFailureAfterClear(p) ==
    /\ pc[p] = "catch"
    /\ isUpdating' = FALSE
    /\ \E w \in BOOLEAN :
         /\ updAudit' = [updAudit EXCEPT ![p] =
                Append(@, AuditEntry("WEBSITE_UPDATE_FAILED", p, w, NoCommit,
                                     [NoValue EXCEPT !.error = error[p]]))]
         /\ result' = [result EXCEPT ![p] =
                [kind |-> "UpdateFailed", commit |-> NoCommit, message |-> error[p]]]
    /\ pc' = [pc EXCEPT ![p] = "finally"]
    /\ UNCHANGED <<updLocals, execs, lastOutcome, updEnv>>
    /\ UNCHANGED <<status, authVars>>

AuditFailure(p) ==
    /\ pc[p] = "catch"
    /\ \E w \in BOOLEAN :
         /\ updAudit' = [updAudit EXCEPT ![p] =
                Append(@, AuditEntry("WEBSITE_UPDATE_FAILED", p, w, NoCommit,
                                     [NoValue EXCEPT !.error = error[p]]))]
         /\ result' = [result EXCEPT ![p] =
                [kind |-> IF AuditLog(w) = "returned" THEN "UpdateFailed"
                          ELSE "AuditWriteFailed",
                 commit |-> NoCommit, message |-> error[p]]]
    /\ pc' = [pc EXCEPT ![p] = "finally"]
    /\ UNCHANGED <<isUpdating, updLocals, execs, lastOutcome, updEnv>>
    /\ UNCHANGED <<status, authVars>>

(***************************************************************************)
(* finally { this.isUpdating = false }, then the result or the exception   *)
(* reaches the caller and the invocation's locals are gone.                *)
(***************************************************************************)
FinallyOnSuccessOnly(p) ==
    /\ pc[p] = "finally"
    /\ isUpdating' = (result[p].kind # "success")
    /\ lastOutcome' = [lastOutcome EXCEPT ![p] = result[p].kind]
    /\ pc' = [pc EXCEPT ![p] = "idle"]
    /\ beforeCommit' = [beforeCommit EXCEPT ![p] = NoCommit]
    /\ afterCommit' = [afterCommit EXCEPT ![p] = NoCommit]
    /\ branch' = [branch EXCEPT ![p] = "none"]
    /\ error' = [error EXCEPT ![p] = NoError]
    /\ updAudit' = [updAudit EXCEPT ![p] = <<>>]
    /\ execs' = [execs EXCEPT ![p] = <<>>]
    /\ result' = [result EXCEPT ![p] = NoResult]
    /\ UNCHANGED updEnv
    /\ UNCHANGED <<status, authVars>>

Finally(p) ==
    /\ pc[p] = "finally"
    /\ isUpdating' = FALSE
    /\ lastOutcome' = [lastOutcome EXCEPT ![p] = result[p].kind]
    /\ pc' = [pc EXCEPT ![p] = "idle"]
    /\ beforeCommit' = [beforeCommit EXCEPT ![p] = NoCommit]
    /\ afterCommit' = [afterCommit EXCEPT ![p] = NoCommit]
    /\ branch' = [branch EXCEPT ![p] = "none"]
    /\ error' = [error EXCEPT ![p] = NoError]
    /\ updAudit' = [updAudit EXCEPT ![p] = <<>>]
    /\ execs' = [execs EXCEPT ![p] = <<>>]
    /\ result' = [result EXCEPT ![p] = NoResult]
    /\ UNCHANGED updEnv
    /\ UNCHANGED <<status, authVars>>

(***************************************************************************)
(* Environment of the updater: upstream receives commits; the volume is    *)
(* mounted, unmounted, or loses its .git directory.                        *)
(***************************************************************************)
RemotePush ==
    /\ remoteHead < MaxCommit
    /\ remoteHead' = remoteHead + 1
    /\ UNCHANGED <<isUpdating, pc, updLocals, updTrace, mountExists, mountHasGit, localHead>>
    /\ UNCHANGED <<status, authVars>>

FsChange ==
    /\ \E e \in BOOLEAN, g \in BOOLEAN :
         /\ g => e
         /\ <<e, g>> # <<mountExists, mountHasGit>>
         /\ mountExists' = e
         /\ mountHasGit' = g
    /\ UNCHANGED <<isUpdating, pc, updLocals, updTrace, localHead, remoteHead>>
    /\ UNCHANGED <<status, authVars>>

(***************************************************************************)
(* getWebsiteStatus: validateMountPoint, then the branch, the commit and   *)
(* 'git status --porcelain' together (Promise.all), then fs.stat of        *)
(* .git/FETCH_HEAD.  A failure of validateMountPoint is thrown to the      *)
(* caller; a failing read yields 'unknown', '' or null.                    *)
(***************************************************************************)
StatusFrame == UNCHANGED <<isUpdating, pc, updLocals, updTrace, updEnv, authVars>>

GetWebsiteStatus ==
    /\ status.pc = "idle"
    /\ status' = [status EXCEPT !.pc = "validate"]
    /\ StatusFrame

StatusValidateSkipped ==
    /\ status.pc = "validate"
    /\ status' = [status EXCEPT !.pc = "read",
                                !.validation = ValidateMountPoint(WEBSITE_MOUNT)]
    /\ StatusFrame

StatusValidate ==
    /\ status.pc = "validate"
    /\ LET e == ValidateMountPoint(WEBSITE_MOUNT) IN
       status' = IF e = NoError
                 THEN [status EXCEPT !.pc = "read", !.validation = e]
                 ELSE [status EXCEPT !.pc = "done", !.validation = e, !.outcome = e]
    /\ StatusFrame

StatusOutcomes == {"clean", "dirty", "Command failed: git status"}

StatusRead ==
    /\ status.pc = "read"
    /\ \E b \in RevParseOutcomes, c \in RevParseOutcomes, s \in StatusOutcomes :
         status' = [status EXCEPT
                       !.pc = "stat",
                       !.reads = <<[cmd |-> "git rev-parse --abbrev-ref HEAD",
                                    cwd |-> WEBSITE_MOUNT, exit |-> b],
                                   [cmd |-> "git rev-parse --short HEAD",
                                    cwd |-> WEBSITE_MOUNT, exit |-> c],
                                   [cmd |-> "git status --porcelain",
                                    cwd |-> WEBSITE_MOUNT,
                                    exit |-> IF s \in {"clean", "dirty"} THEN "ok" ELSE s]>>,
                       !.branch = GetGitBranch(b),
                       !.commit = GetGitCommit(c),
                       !.isClean = s # "dirty"]
    /\ StatusFrame

StatusStat ==
    /\ status.pc = "stat"
    /\ \E found \in BOOLEAN :
         status' = [status EXCEPT !.pc = "done",
                                 !.lastModified = IF found THEN "mtime" ELSE "null",
                                 !.outcome = "ok"]
    /\ StatusFrame

StatusReturn ==
    /\ status.pc = "done"
    /\ status' = NoStatus
    /\ StatusFrame

UpdaterStep(p) ==
    \/ Validate(p)
    \/ GetBefore(p)
    \/ Pull(p)
    \/ GetAfter(p)
    \/ GetBranch(p)
    \/ AuditSuccess(p)
    \/ AuditFailure(p)
    \/ Finally(p)

(***************************************************************************)
(* Authentication: the user store (PostgreSQL via Prisma), the session     *)
(* store (Redis via @fastify/session), and one HTTP request at a time on   *)
(* its way through the session middleware, the guards and the handler.     *)
(* The user store and the clock change between the steps of a request.     *)
(***************************************************************************)
MaxSessions == 2
SessionMaxAge == 2

UserIds == {"alice", "bob"}
Roles == {"OWNER", "MANAGER", "FRONT_DESK", "HOUSEKEEPING", "KITCHEN", "MAINTENANCE"}
SessionIds == 1..MaxSessions
NoUserId == "none"
NoRole == "none"
NoSessionId == 0

(***************************************************************************)
(* E-mail addresses are strings: sequences of characters.  The user store  *)
(* holds them lowercase and trimmed; a login request may carry any string. *)
(***************************************************************************)
AliceEmail == <<"a", "@", "x">>
BobEmail == <<"b", "@", "x">>
NobodyEmail == <<"n", "@", "x">>
Emails == {AliceEmail, BobEmail, NobodyEmail}
NoEmail == <<>>
WhiteSpace == {" ", "\t"}

(* String.prototype.toLowerCase *)
ToLowerCase(s) ==
    [i \in 1..Len(s) |->
        CASE s[i] = "A" -> "a"
          [] s[i] = "B" -> "b"
          [] s[i] = "N" -> "n"
          [] s[i] = "X" -> "x"
          [] OTHER -> s[i]]

(* String.prototype.trim *)
RECURSIVE TrimStart(_)
TrimStart(s) == IF s # <<>> /\ Head(s) \in WhiteSpace THEN TrimStart(Tail(s)) ELSE s

RECURSIVE TrimEnd(_)
TrimEnd(s) ==
    IF s # <<>> /\ s[Len(s)] \in WhiteSpace THEN TrimEnd(SubSeq(s, 1, Len(s) - 1)) ELSE s

Trim(s) == TrimEnd(TrimStart(s))
NoName == "none"

NoSession ==
    [user |-> NoUserId, role |-> NoRole, email |-> NoEmail, firstName |-> NoName,
     lastName |-> NoName, ttl |-> 0]
NullUser == [id |-> NoUserId, role |-> NoRole, is_active |-> FALSE]
NoPayload ==
    [id |-> NoUserId, email |-> NoEmail, role |-> NoRole, firstName |-> NoName,
     lastName |-> NoName]
NoDto == [email |-> NoEmail, passwordValid |-> FALSE]
NoResponse ==
    [kind |-> "none", roles |-> {}, sessionId |-> NoSessionId, user |-> NoUserId,
     payload |-> NoPayload]
NoRequest ==
    [stage |-> "idle", route |-> "none", sid |-> NoSessionId, suser |-> NoUserId,
     srole |-> NoRole, fault |-> "none",
     user |-> NullUser, lookups |-> {}, audit |-> <<>>, touched |-> {},
     dto |-> NoDto, verifies |-> <<>>, resp |-> NoResponse]

(***************************************************************************)
(* Route metadata.  @Public() and @Roles(...) are SetMetadata on a handler *)
(* or on its class; @UseGuards installs the guards.  The first four routes *)
(* are those of AuthController and ConfigController; the others put both   *)
(* guards on each remaining combination of the two metadata keys.          *)
(***************************************************************************)
Undefined == [defined |-> FALSE, value |-> {}]
Meta(v) == [defined |-> TRUE, value |-> v]
Public == Meta({TRUE})
BothGuards == {"AuthGuard", "RolesGuard"}

Route(guards, publicH, rolesH, rolesC, handler) ==
    [guards |-> guards, isPublic |-> <<publicH, Undefined>>,
     roles |-> <<rolesH, rolesC>>, handler |-> handler]

RouteNames ==
    {"POST /auth/login", "POST /auth/logout", "GET /auth/me", "GET /admin/config",
     "AuthService.logout", "AuthService.revokeAllSessionsForUser", "public",
     "public, class roles", "no roles", "empty roles", "manager only"}

RouteTable(name) ==
    CASE name = "POST /auth/login" -> Route({}, Public, Undefined, Undefined, "login")
      [] name = "POST /auth/logout" ->
            Route({"AuthGuard"}, Undefined, Undefined, Undefined, "logout")
      [] name = "GET /auth/me" -> Route({"AuthGuard"}, Undefined, Undefined, Undefined, "me")
      [] name = "GET /admin/config" ->
            Route(BothGuards, Undefined, Meta({"OWNER", "MANAGER"}), Undefined, "resource")
      [] name = "AuthService.logout" -> Route({}, Undefined, Undefined, Undefined, "logout")
      [] name = "AuthService.revokeAllSessionsForUser" ->
            Route({}, Undefined, Undefined, Undefined, "revoke")
      [] name = "public" -> Route(BothGuards, Public, Undefined, Undefined, "resource")
      [] name = "public, class roles" ->
            Route(BothGuards, Public, Undefined, Meta({"MANAGER"}), "resource")
      [] name = "no roles" -> Route(BothGuards, Undefined, Undefined, Undefined, "resource")
      [] name = "empty roles" ->
            Route(BothGuards, Undefined, Meta({}), Meta({"MANAGER"}), "resource")
      [] name = "manager only" ->
            Route(BothGuards, Undefined, Meta({"MANAGER"}), Undefined, "resource")

(* Reflector.getAllAndOverride: the first defined value, handler first. *)
GetAllAndOverride(targets) ==
    IF targets[1].defined THEN targets[1] ELSE targets[2]

IsPublic(route) ==
    LET m == GetAllAndOverride(RouteTable(route).isPublic) IN m.defined /\ TRUE \in m.value

RequiredRoles(route) == GetAllAndOverride(RouteTable(route).roles)

AuthInit ==
    /\ \E r \in Roles :
         users = [u \in UserIds |->
                    [is_active |-> TRUE,
                     role |-> IF u = "alice" THEN r ELSE "FRONT_DESK",
                     last_login_at |-> "never",
                     email |-> IF u = "alice" THEN AliceEmail ELSE BobEmail,
                     first_name |-> IF u = "alice" THEN "Alice" ELSE "Bob",
                     last_name |-> IF u = "alice" THEN "Archer" ELSE "Baker"]]
    /\ store = [s \in SessionIds |-> NoSession]
    /\ minted = 0
    /\ req = NoRequest

(***************************************************************************)
(* @fastify/session, onRequest: a cookie naming a key of the store loads   *)
(* that session into req.session (rolling: true resets its expiry); any    *)
(* other request gets an empty session, whose id the store generates and   *)
(* which is not saved unless a handler saves it (saveUninitialized: false).*)
(***************************************************************************)
Live(s) == s \in SessionIds /\ store[s].ttl > 0

ArriveWithoutRolling(cookie, route) ==
    /\ req.stage = "idle"
    /\ cookie <= minted
    /\ IF Live(cookie)
       THEN req' = [NoRequest EXCEPT !.stage = "gate", !.route = route,
                       !.sid = cookie, !.suser = store[cookie].user,
                       !.srole = store[cookie].role]
       ELSE /\ RouteTable(route).handler = "login" => minted < MaxSessions
            /\ req' = [NoRequest EXCEPT !.stage = "gate", !.route = route]
    /\ UNCHANGED <<users, store, minted>>
    /\ UNCHANGED updVars

Arrive(cookie, route) ==
    /\ req.stage = "idle"
    /\ cookie <= minted
    /\ IF Live(cookie)
       THEN /\ req' = [NoRequest EXCEPT !.stage = "gate", !.route = route,
                           !.sid = cookie, !.suser = store[cookie].user,
                           !.srole = store[cookie].role]
            /\ store' = [store EXCEPT ![cookie].ttl = SessionMaxAge]
       ELSE /\ RouteTable(route).handler = "login" => minted < MaxSessions
            /\ req' = [NoRequest EXCEPT !.stage = "gate", !.route = route]
            /\ UNCHANGED store
    /\ UNCHANGED <<users, minted>>
    /\ UNCHANGED updVars

(***************************************************************************)
(* AuthService.getSessionUser: the session's user, re-read from the user   *)
(* store; null without a session user, without a record, or when the       *)
(* record is not active.                                                   *)
(***************************************************************************)
FindUnique(id) ==
    IF id \in UserIds
    THEN [id |-> id, role |-> users[id].role, is_active |-> users[id].is_active]
    ELSE NullUser

GetSessionUserIgnoringActive(request) ==
    IF request.suser = NoUserId THEN NullUser ELSE FindUnique(request.suser)

GetSessionUserFromPayload(request) ==
    IF request.suser = NoUserId THEN NullUser
    ELSE LET user == FindUnique(request.suser) IN
         IF user = NullUser \/ ~user.is_active THEN NullUser
         ELSE [user EXCEPT !.role = request.srole]

GetSessionUser(request) ==
    IF request.suser = NoUserId THEN NullUser
    ELSE LET user == FindUnique(request.suser) IN
         IF user = NullUser \/ ~user.is_active THEN NullUser ELSE user

GetSessionUserLookups(request) ==
    IF request.suser = NoUserId THEN {"session"} ELSE {"session", "user"}

(***************************************************************************)
(* AuthGuard.canActivate and RolesGuard.canActivate: the request with what *)
(* the guard attached to it and, when the guard throws, the response.      *)
(***************************************************************************)
Rejection(kind, roles) == [NoResponse EXCEPT !.kind = kind, !.roles = roles]

AuthGuardAttachingPayload(route, request) ==
    IF IsPublic(route) THEN request
    ELSE LET user == GetSessionUser(request)
             looked == [request EXCEPT !.lookups = GetSessionUserLookups(request)]
         IN  IF user = NullUser
             THEN [looked EXCEPT !.resp = Rejection("Unauthenticated", {})]
             ELSE [looked EXCEPT !.user = [user EXCEPT !.role = request.srole]]

AuthGuard(route, request) ==
    IF IsPublic(route) THEN request
    ELSE LET user == GetSessionUser(request)
             looked == [request EXCEPT !.lookups = GetSessionUserLookups(request)]
         IN  IF user = NullUser
             THEN [looked EXCEPT !.resp = Rejection("Unauthenticated", {})]
             ELSE [looked EXCEPT !.user = user]

RolesGuardEmptyDenies(route, request) ==
    LET requiredRoles == RequiredRoles(route) IN
    IF ~requiredRoles.defined THEN request
    ELSE IF request.user = NullUser
         THEN [request EXCEPT !.resp = Rejection("Forbidden", {})]
    ELSE IF request.user.role \notin requiredRoles.value
         THEN [request EXCEPT !.resp = Rejection("Forbidden", requiredRoles.value)]
    ELSE request

RolesGuardOwnerBypass(route, request) ==
    LET requiredRoles == RequiredRoles(route) IN
    IF ~requiredRoles.defined \/ requiredRoles.value = {} THEN request
    ELSE IF request.user = NullUser
         THEN [request EXCEPT !.resp = Rejection("Forbidden", {})]
    ELSE IF request.user.role \notin requiredRoles.value \cup {"OWNER"}
         THEN [request EXCEPT !.resp = Rejection("Forbidden", requiredRoles.value)]
    ELSE request

RolesGuard(route, request) ==
    LET requiredRoles == RequiredRoles(route) IN
    IF ~requiredRoles.defined \/ requiredRoles.value = {} THEN request
    ELSE IF request.user = NullUser
         THEN [request EXCEPT !.resp = Rejection("Forbidden", {})]
    ELSE IF request.user.role \notin requiredRoles.value
         THEN [request EXCEPT !.resp = Rejection("Forbidden", requiredRoles.value)]
    ELSE request

GuardsRolesFirst(route, request) ==
    LET installed == RouteTable(route).guards
        r == IF "RolesGuard" \in installed THEN RolesGuard(route, request) ELSE request
    IN  IF r.resp # NoResponse \/ "AuthGuard" \notin installed
        THEN r
        ELSE AuthGuard(route, r)

Guards(route, request) ==
    LET installed == RouteTable(route).guards
        a == IF "AuthGuard" \in installed THEN AuthGuard(route, request) ELSE request
    IN  IF a.resp # NoResponse \/ "RolesGuard" \notin installed
        THEN a
        ELSE RolesGuard(route, a)

Gate ==
    /\ req.stage = "gate"
    /\ LET g == Guards(req.route, req) IN
       req' = [g EXCEPT !.stage = IF g.resp = NoResponse THEN "handler" ELSE "done"]
    /\ UNCHANGED <<users, store, minted>>
    /\ UNCHANGED updVars

(***************************************************************************)
(* AuthService.login (AuthController.login returns its user).  The lookup  *)
(* by email, then the credential checks in the order of the code, with the *)
(* hash each argon2.verify call was given: the fixed placeholder when no   *)
(* user was found, none for a deactivated user, the user's password hash   *)
(* otherwise.                                                              *)
(***************************************************************************)
UserAudit(action, resourceId, by, written) ==
    [action |-> action, resourceId |-> resourceId, performedById |-> by,
     written |-> written]

FindUniqueByEmail(email) ==
    LET found == {u \in UserIds : users[u].email = email} IN
    IF found = {} THEN NullUser ELSE FindUnique(CHOOSE u \in found : TRUE)

(* where: { email: email.toLowerCase().trim() } *)
LookupKeyUntrimmed(email) == ToLowerCase(email)

LookupKey(email) == Trim(ToLowerCase(email))

CredentialsWithoutDummyVerify(user, passwordValid) ==
    IF user = NullUser
    THEN [kind |-> "InvalidCredentials", verifies |-> <<>>, audited |-> FALSE]
    ELSE IF ~user.is_active
    THEN [kind |-> "AccountDeactivated", verifies |-> <<>>, audited |-> FALSE]
    ELSE IF ~passwordValid
    THEN [kind |-> "InvalidCredentials", verifies |-> <<user.id>>, audited |-> TRUE]
    ELSE [kind |-> "LoginOk", verifies |-> <<user.id>>, audited |-> TRUE]

CredentialsPasswordFirst(user, passwordValid) ==
    IF user = NullUser
    THEN [kind |-> "InvalidCredentials", verifies |-> <<"placeholder">>, audited |-> FALSE]
    ELSE IF ~passwordValid
    THEN [kind |-> "InvalidCredentials", verifies |-> <<user.id>>, audited |-> TRUE]
    ELSE IF ~user.is_active
    THEN [kind |-> "AccountDeactivated", verifies |-> <<user.id>>, audited |-> FALSE]
    ELSE [kind |-> "LoginOk", verifies |-> <<user.id>>, audited |-> TRUE]

CredentialsUnaudited(user, passwordValid) ==
    IF user = NullUser
    THEN [kind |-> "InvalidCredentials", verifies |-> <<"placeholder">>, audited |-> FALSE]
    ELSE IF ~user.is_active
    THEN [kind |-> "AccountDeactivated", verifies |-> <<>>, audited |-> FALSE]
    ELSE IF ~passwordValid
    THEN [kind |-> "InvalidCredentials", verifies |-> <<user.id>>, audited |-> FALSE]
    ELSE [kind |-> "LoginOk", verifies |-> <<user.id>>, audited |-> TRUE]

Credentials(user, passwordValid) ==
    IF user = NullUser
    THEN [kind |-> "InvalidCredentials", verifies |-> <<"placeholder">>, audited |-> FALSE]
    ELSE IF ~user.is_active
    THEN [kind |-> "AccountDeactivated", verifies |-> <<>>, audited |-> FALSE]
    ELSE IF ~passwordValid
    THEN [kind |-> "InvalidCredentials", verifies |-> <<user.id>>, audited |-> TRUE]
    ELSE [kind |-> "LoginOk", verifies |-> <<user.id>>, audited |-> TRUE]

SessionPayloadDefaultRole(id) ==
    [id |-> id, email |-> users[id].email, role |-> "FRONT_DESK",
     firstName |-> users[id].first_name, lastName |-> users[id].last_name]

SessionPayload(id) ==
    [id |-> id, email |-> users[id].email, role |-> users[id].role,
     firstName |-> users[id].first_name, lastName |-> users[id].last_name]

(* req.session.user = sessionUser; save(): the entry of the session store. *)
Saved(payload) ==
    [user |-> payload.id, role |-> payload.role, email |-> payload.email,
     firstName |-> payload.firstName, lastName |-> payload.lastName,
     ttl |-> SessionMaxAge]

(***************************************************************************)
(* The three awaits of a login whose credentials are accepted, in order:   *)
(* req.session.save(), prisma.user.update of last_login_at, audit.log of   *)
(* USER_LOGIN.  A rejection of save or update is not caught: it ends the   *)
(* login there, and the caller gets an internal error.                     *)
(***************************************************************************)
LoginFaults == {"none", "save", "update"}

LoginEffectsUpdateFirst(fault) ==
    [saved |-> fault = "none", updated |-> fault # "update", audited |-> fault = "none",
     kind |-> CASE fault = "save" -> "SessionStoreUnavailable"
                [] fault = "update" -> "UserStoreUnavailable"
                [] OTHER -> "LoginOk"]

LoginEffects(fault) ==
    [saved |-> fault # "save", updated |-> fault = "none", audited |-> fault = "none",
     kind |-> CASE fault = "save" -> "SessionStoreUnavailable"
                [] fault = "update" -> "UserStoreUnavailable"
                [] OTHER -> "LoginOk"]

Login(email, passwordValid, fault) ==
    /\ req.stage = "handler"
    /\ RouteTable(req.route).handler = "login"
    /\ LET user == FindUniqueByEmail(LookupKey(email))
           c == Credentials(user, passwordValid)
           asked == [req EXCEPT !.dto = [email |-> email, passwordValid |-> passwordValid],
                                !.verifies = c.verifies]
       IN
       IF c.kind # "LoginOk"
       THEN /\ fault = "none"
            /\ \E w \in BOOLEAN :
                 req' = [asked EXCEPT
                            !.stage = "done",
                            !.audit = IF c.audited
                                      THEN Append(@, UserAudit("USER_LOGIN_FAILED", user.id,
                                                               NoUserId, w))
                                      ELSE @,
                            !.resp = Rejection(IF c.audited /\ AuditLog(w) = "thrown"
                                               THEN "AuditWriteFailed" ELSE c.kind, {})]
            /\ UNCHANGED <<users, store, minted>>
       ELSE LET fresh == req.sid = NoSessionId
                sessionId == IF fresh THEN minted + 1 ELSE req.sid
                sessionUser == SessionPayload(user.id)
                fx == LoginEffects(fault)
            IN  /\ sessionId \in SessionIds
                /\ store' = IF fx.saved
                            THEN [store EXCEPT ![sessionId] = Saved(sessionUser)]
                            ELSE store
                /\ minted' = IF fresh /\ fx.saved THEN minted + 1 ELSE minted
                /\ users' = IF fx.updated
                            THEN [users EXCEPT ![user.id].last_login_at = "set"]
                            ELSE users
                /\ \E w \in BOOLEAN :
                     /\ ~fx.audited => w
                     /\ req' = [asked EXCEPT
                                !.stage = "done",
                                !.fault = fault,
                                !.sid = IF fx.saved THEN sessionId ELSE @,
                                !.suser = user.id, !.srole = sessionUser.role,
                                !.touched = IF fx.updated THEN @ \cup {user.id} ELSE @,
                                !.audit = IF fx.audited
                                          THEN Append(@, UserAudit("USER_LOGIN", user.id,
                                                                   user.id, w))
                                          ELSE @,
                                !.resp = IF fx.kind # "LoginOk"
                                         THEN Rejection(fx.kind, {})
                                         ELSE IF AuditLog(w) = "thrown"
                                         THEN Rejection("AuditWriteFailed", {})
                                         ELSE [NoResponse EXCEPT
                                                  !.kind = "LoginOk",
                                                  !.sessionId = sessionId,
                                                  !.user = user.id,
                                                  !.payload = sessionUser]]
    /\ UNCHANGED updVars

(***************************************************************************)
(* AuthService.logout: destroy the session, then audit when the request's  *)
(* session had a user.                                                     *)
(***************************************************************************)
DestroyNothing(sessionId) == store

DestroyAllOfUser(sessionId) ==
    IF sessionId \in SessionIds
    THEN [s \in SessionIds |->
            IF store[s].user = store[sessionId].user THEN NoSession ELSE store[s]]
    ELSE store

Destroy(sessionId) ==
    IF sessionId \in SessionIds THEN [store EXCEPT ![sessionId] = NoSession] ELSE store

LogoutAlwaysAudits ==
    /\ req.stage = "handler"
    /\ RouteTable(req.route).handler = "logout"
    /\ store' = Destroy(req.sid)
    /\ \E w \in BOOLEAN :
         req' = [req EXCEPT
                    !.stage = "done",
                    !.audit = Append(@, UserAudit("USER_LOGOUT", req.suser, req.suser, w)),
                    !.resp = [NoResponse EXCEPT !.kind = "LoggedOut"]]
    /\ UNCHANGED <<users, minted>>
    /\ UNCHANGED updVars

Logout ==
    /\ req.stage = "handler"
    /\ RouteTable(req.route).handler = "logout"
    /\ store' = Destroy(req.sid)
    /\ \E w \in BOOLEAN :
         req' = [req EXCEPT
                    !.stage = "done",
                    !.audit = IF req.suser # NoUserId
                              THEN Append(@, UserAudit("USER_LOGOUT", req.suser,
                                                       req.suser, w))
                              ELSE @,
                    !.resp = IF req.suser # NoUserId /\ AuditLog(w) = "thrown"
                             THEN Rejection("AuditWriteFailed", {})
                             ELSE [NoResponse EXCEPT !.kind = "LoggedOut"]]
    /\ UNCHANGED <<users, minted>>
    /\ UNCHANGED updVars

(***************************************************************************)
(* AuthService.revokeAllSessionsForUser: a warning in the log and an audit *)
(* record; the session store is not touched.                               *)
(***************************************************************************)
RevokePurgingSessions(targetUserId, performedById) ==
    /\ req.stage = "handler"
    /\ RouteTable(req.route).handler = "revoke"
    /\ store' = [s \in SessionIds |->
                    IF store[s].user = targetUserId THEN NoSession ELSE store[s]]
    /\ \E w \in BOOLEAN :
         req' = [req EXCEPT
                    !.stage = "done",
                    !.audit = Append(@, UserAudit("USER_SESSIONS_REVOKED", targetUserId,
                                                  performedById, w)),
                    !.resp = [NoResponse EXCEPT !.kind = "Revoked"]]
    /\ UNCHANGED <<users, minted>>
    /\ UNCHANGED updVars

RevokeAllSessionsForUser(targetUserId, performedById) ==
    /\ req.stage = "handler"
    /\ RouteTable(req.route).handler = "revoke"
    /\ \E w \in BOOLEAN :
         req' = [req EXCEPT
                    !.stage = "done",
                    !.audit = Append(@, UserAudit("USER_SESSIONS_REVOKED", targetUserId,
                                                  performedById, w)),
                    !.resp = IF AuditLog(w) = "thrown"
                             THEN Rejection("AuditWriteFailed", {})
                             ELSE [NoResponse EXCEPT !.kind = "Revoked"]]
    /\ UNCHANGED <<users, store, minted>>
    /\ UNCHANGED updVars

(***************************************************************************)
(* AuthController.me and the guarded resource handlers: they answer with   *)
(* the user the guard attached (none on a public route).                   *)
(***************************************************************************)
Serve ==
    /\ req.stage = "handler"
    /\ RouteTable(req.route).handler \in {"me", "resource"}
    /\ req' = [req EXCEPT !.stage = "done",
                  !.resp = [NoResponse EXCEPT !.kind = "Ok", !.user = req.user.id]]
    /\ UNCHANGED <<users, store, minted>>
    /\ UNCHANGED updVars

Respond ==
    /\ req.stage = "done"
    /\ req' = NoRequest
    /\ UNCHANGED <<users, store, minted>>
    /\ UNCHANGED updVars

(***************************************************************************)
(* Environment of the session manager: an administrator deactivates or     *)
(* re-activates a user; time passes and Redis drops the keys whose expiry  *)
(* is reached.                                                             *)
(***************************************************************************)
ChangeRole(u, role) ==
    /\ users[u].role # role
    /\ users' = [users EXCEPT ![u].role = role]
    /\ UNCHANGED <<store, minted, req>>
    /\ UNCHANGED updVars

SetActivePurging(u, active) ==
    /\ users[u].is_active # active
    /\ users' = [users EXCEPT ![u].is_active = active]
    /\ store' = [s \in SessionIds |->
                    IF ~active /\ store[s].user = u THEN NoSession ELSE store[s]]
    /\ UNCHANGED <<minted, req>>
    /\ UNCHANGED updVars

SetActive(u, active) ==
    /\ users[u].is_active # active
    /\ users' = [users EXCEPT ![u].is_active = active]
    /\ UNCHANGED <<store, minted, req>>
    /\ UNCHANGED updVars

Tick ==
    /\ \E s \in SessionIds : Live(s)
    /\ store' = [s \in SessionIds |->
                    IF store[s].ttl > 1 THEN [store[s] EXCEPT !.ttl = @ - 1]
                    ELSE NoSession]
    /\ UNCHANGED <<users, minted, req>>
    /\ UNCHANGED updVars

AuthNext ==
    \/ \E c \in 0..MaxSessions, r \in RouteNames : Arrive(c, r)
    \/ Gate
    \/ \E e \in Emails, v \in BOOLEAN : Login(e, v, "none")
    \/ Logout
    \/ \E t \in UserIds : \E by \in UserIds \ {t} : RevokeAllSessionsForUser(t, by)
    \/ Serve
    \/ Respond
    \/ \E u \in UserIds, a \in BOOLEAN : SetActive(u, a)
    \/ Tick

(***************************************************************************)
(* The two subsystems share no state.  Each specification runs one of them *)
(* from the state after construction.                                      *)
(***************************************************************************)
vars == <<updVars, authVars>>

Init == UpdaterInit /\ AuthInit

UpdaterNext ==
    \/ \E p \in Callers : Call(p)
    \/ \E p \in Callers : UpdaterStep(p)
    \/ RemotePush
    \/ FsChange

(* The updater reads nothing of the user store: its specifications start   *)
(* from one of the initial user stores.                                    *)
UpdaterStart == Init /\ \A u \in UserIds : users[u].role = "FRONT_DESK"

UpdaterSpec == UpdaterStart /\ [][UpdaterNext]_vars

(***************************************************************************)
(* Every external call returns, fails or times out: each step of a running *)
(* invocation is eventually taken.                                         *)
(***************************************************************************)
UpdaterFairSpec ==
    UpdaterStart /\ [][UpdaterNext]_vars
         /\ \A p \in Callers : WF_vars(UpdaterStep(p))

(***************************************************************************)
(* Status queries interleaved with the invocations of one caller of the    *)
(* update trigger.                                                         *)
(***************************************************************************)
StatusNext ==
    \/ Call(1)
    \/ UpdaterStep(1)
    \/ RemotePush
    \/ FsChange
    \/ GetWebsiteStatus
    \/ StatusValidate
    \/ StatusRead
    \/ StatusStat
    \/ StatusReturn

StatusSpec == UpdaterStart /\ [][StatusNext]_vars

AuthSpec == Init /\ [][AuthNext]_vars

(***************************************************************************)
(* Both subsystems write to the one audit sink and share nothing else, so  *)
(* a behaviour in which both run is an interleaving of a behaviour of      *)
(* each.  AuditSpec runs every operation that calls AuditService.log: the  *)
(* updater while the session manager rests in its initial state, and the   *)
(* requests for login, logout and revocation while the updater rests in    *)
(* its initial state.                                                      *)
(***************************************************************************)
AuditRoutes ==
    {r \in RouteNames : RouteTable(r).handler \in {"login", "logout", "revoke"}}

AuthQuiet ==
    /\ req = NoRequest
    /\ minted = 0
    /\ \A s \in SessionIds : store[s] = NoSession
    /\ \A u \in UserIds :
         /\ users[u].is_active
         /\ users[u].last_login_at = "never"
         /\ users[u].role = "FRONT_DESK"

UpdaterQuiet ==
    /\ ~isUpdating
    /\ \A p \in Callers : pc[p] = "idle" /\ lastOutcome[p] = "none"
    /\ mountExists /\ mountHasGit
    /\ localHead = 0 /\ remoteHead = 0

AuditNext ==
    \/ \E p \in Callers : AuthQuiet /\ Call(p)
    \/ \E p \in Callers : AuthQuiet /\ Validate(p)
    \/ \E p \in Callers : AuthQuiet /\ GetBefore(p)
    \/ \E p \in Callers : AuthQuiet /\ Pull(p)
    \/ \E p \in Callers : AuthQuiet /\ GetAfter(p)
    \/ \E p \in Callers : AuthQuiet /\ GetBranch(p)
    \/ \E p \in Callers : AuthQuiet /\ AuditSuccess(p)
    \/ \E p \in Callers : AuthQuiet /\ AuditFailure(p)
    \/ \E p \in Callers : AuthQuiet /\ Finally(p)
    \/ AuthQuiet /\ RemotePush
    \/ AuthQuiet /\ FsChange
    \/ \E c \in 0..MaxSessions, r \in AuditRoutes : UpdaterQuiet /\ Arrive(c, r)
    \/ UpdaterQuiet /\ Gate
    \/ \E e \in Emails, v \in BOOLEAN : UpdaterQuiet /\ Login(e, v, "none")
    \/ UpdaterQuiet /\ Logout
    \/ \E t \in UserIds : \E by \in UserIds \ {t} :
          UpdaterQuiet /\ RevokeAllSessionsForUser(t, by)
    \/ UpdaterQuiet /\ Respond
    \/ \E u \in UserIds, a \in BOOLEAN : UpdaterQuiet /\ SetActive(u, a)

AuditSpec == Init /\ [][AuditNext]_vars

(***************************************************************************)
(* The login endpoint under arbitrary spellings of the e-mail address     *)
(* (each address in any mix of letter case, with up to MaxPad characters   *)
(* of white space before it and after it) and with the session store or    *)
(* the user store failing under it.                                        *)
(***************************************************************************)
MaxPad == 1

ToUpperCase(c) ==
    CASE c = "a" -> "A"
      [] c = "b" -> "B"
      [] c = "n" -> "N"
      [] c = "x" -> "X"
      [] OTHER -> c

Pads == UNION {[1..n -> WhiteSpace] : n \in 0..MaxPad}

CaseVariants(e) ==
    {s \in [1..Len(e) -> {e[i] : i \in 1..Len(e)} \cup {ToUpperCase(e[i]) : i \in 1..Len(e)}] :
        \A i \in 1..Len(e) : s[i] \in {e[i], ToUpperCase(e[i])}}

Variants(e) == {lead \o s \o trail : lead \in Pads, s \in CaseVariants(e), trail \in Pads}

VariantsOf == [e \in Emails |-> Variants(e)]

RawEmails == UNION {VariantsOf[e] : e \in Emails}

LoginNext ==
    \/ \E c \in 0..MaxSessions : Arrive(c, "POST /auth/login")
    \/ Gate
    \/ \E e \in RawEmails, v \in BOOLEAN : Login(e, v, "none")
    \/ \E e \in Emails, f \in LoginFaults \ {"none"} : Login(e, TRUE, f)
    \/ Respond

LoginSpec == UpdaterStart /\ [][LoginNext]_vars

(***************************************************************************)
(* The life of sessions: login, authenticated reads, logout, deactivation  *)
(* and the passage of time, on the endpoints of AuthController.            *)
(***************************************************************************)
SessionRoutes ==
    {"POST /auth/login", "POST /auth/logout", "GET /auth/me", "AuthService.logout"}

SessionNext ==
    \/ \E c \in 0..MaxSessions, r \in SessionRoutes : Arrive(c, r)
    \/ Gate
    \/ \E e \in Emails, v \in BOOLEAN : Login(e, v, "none")
    \/ Logout
    \/ Serve
    \/ Respond
    \/ \E u \in UserIds, a \in BOOLEAN : SetActive(u, a)
    \/ Tick

SessionSpec == UpdaterStart /\ [][SessionNext]_vars

(***************************************************************************)
(* Sessions that outlive a change of their user's role: alice logs in, an  *)
(* administrator changes her role or deactivates her, and her sessions are *)
(* used on routes with and without required roles.                         *)
(***************************************************************************)
RoleRoutes == {"POST /auth/login", "GET /auth/me", "manager only"}

RoleNext ==
    \/ \E c \in 0..MaxSessions, r \in RoleRoutes : Arrive(c, r)
    \/ Gate
    \/ Login(AliceEmail, TRUE, "none")
    \/ Serve
    \/ Respond
    \/ \E r \in Roles : ChangeRole("alice", r)
    \/ \E a \in BOOLEAN : SetActive("alice", a)

RoleSpec == Init /\ [][RoleNext]_vars

(***************************************************************************)
(* Steps of one caller as seen from outside: a triggerUpdate call is the   *)
(* step that takes an idle caller into the try block or gives it an        *)
(* answer; an exit is the step that takes it out of the invocation.        *)
(***************************************************************************)
CallStep(p) ==
    /\ pc[p] = "idle"
    /\ <<pc[p], lastOutcome[p]>>' # <<pc[p], lastOutcome[p]>>

ExitStep(p) == pc[p] # "idle" /\ pc'[p] = "idle"

Rejected(p) == pc'[p] = "idle" /\ lastOutcome'[p] = "UpdateInProgress"

Proceeds(p) == pc'[p] = "validate"

(***************************************************************************)
(* C1  Single-flight: at most one pullWebsiteUpdate invocation is past the *)
(* in-progress check at any time (so at most one pull is in flight); a     *)
(* call made while another invocation is running is rejected in that same  *)
(* step with UpdateInProgress, without queueing, and a call made while     *)
(* none is running proceeds.                                               *)
(***************************************************************************)
C1_SingleFlight ==
    /\ [](Cardinality(InFlight) <= 1)
    /\ [][\A p \in Callers : CallStep(p) =>
            IF InFlight # {} THEN Rejected(p) ELSE Proceeds(p)]_vars

C1_Witness ==
    \E p, q \in Callers :
        /\ pc[p] = "pull"
        /\ Len(execs[p]) = 1
        /\ pc[q] = "idle"
        /\ lastOutcome[q] = "UpdateInProgress"

(***************************************************************************)
(* C2  Every invocation that set the in-progress flag clears it on every   *)
(* exit path: the step in which it returns or throws (success, path        *)
(* validation failure, pull failure, pull timeout) leaves the flag false.  *)
(***************************************************************************)
C2_FlagClearedOnExit ==
    [][\A p \in Callers : ExitStep(p) =>
          /\ ~isUpdating'
          /\ lastOutcome'[p] \in {"success", "UpdateFailed"}]_vars

C2_Witness ==
    \E p, q \in Callers :
        /\ lastOutcome[p] = "success"
        /\ lastOutcome[q] = "UpdateFailed"
        /\ InFlight = {}
        /\ ~isUpdating

(***************************************************************************)
(* C3  No permanent lockout: when every external call eventually returns,  *)
(* fails or times out, a running invocation eventually clears the flag,    *)
(* and a call made when the previous invocation has completed is never     *)
(* rejected with UpdateInProgress.                                         *)
(***************************************************************************)
C3_NoPermanentLockout ==
    /\ \A p \in Callers : (pc[p] # "idle") ~> (pc[p] = "idle" /\ ~isUpdating)
    /\ [][\A p \in Callers : (CallStep(p) /\ InFlight = {}) => ~Rejected(p)]_vars

C3_Witness ==
    \E p, q \in Callers :
        /\ pc[p] = "idle"
        /\ lastOutcome[p] = "UpdateFailed"
        /\ pc[q] = "after"

(***************************************************************************)
(* What an invocation at its finally block has seen.                       *)
(***************************************************************************)
ValidationErrors ==
    {"Invalid mount path", "Website mount point is not accessible",
     "Website directory is not a git repository"}

Failed(p, cmds) ==
    {execs[p][i].exit : i \in {j \in DOMAIN execs[p] : execs[p][j].cmd \in cmds}} \ {"ok"}

PullFailed(p) == Failed(p, {"git pull --ff-only"})

AtExit(p) == pc[p] = "finally"

Cmds(p) == {execs[p][i].cmd : i \in DOMAIN execs[p]}

FailedAudit(p) ==
    /\ Len(updAudit[p]) = 1
    /\ updAudit[p][1].action = "WEBSITE_UPDATE_FAILED"
    /\ updAudit[p][1].newValue.error = error[p]

(***************************************************************************)
(* C11  An invocation whose target directory fails validation fails with   *)
(* InvalidTarget, not UpdateFailed, and has started no external process.   *)
(***************************************************************************)
C11_InvalidTargetKind ==
    \A p \in Callers :
        (AtExit(p) /\ error[p] \in ValidationErrors)
        => /\ result[p].kind = "InvalidTarget"
           /\ execs[p] = <<>>

(***************************************************************************)
(* C12  As claimed: a failure of the 'before' query, of the pull, or of    *)
(* the 'after' and branch queries ends in WEBSITE_UPDATE_FAILED and        *)
(* UpdateFailed, never in a success result.                                *)
(***************************************************************************)
QueryFailed(p) ==
    Failed(p, {"git rev-parse --short HEAD", "git rev-parse --abbrev-ref HEAD"})

C12_AnyStepFailureFails ==
    \A p \in Callers :
        (AtExit(p) /\ (QueryFailed(p) # {} \/ PullFailed(p) # {}))
        => /\ result[p].kind = "UpdateFailed"
           /\ FailedAudit(p)

(***************************************************************************)
(* C12  As amended: a failure of the pull ends in WEBSITE_UPDATE_FAILED    *)
(* carrying the error message and in UpdateFailed whose message carries it *)
(* too, and a success result is returned only when the pull succeeded; a   *)
(* failed revision or branch query is recorded as 'unknown' and does not   *)
(* by itself fail the invocation.                                          *)
(***************************************************************************)
C12_PullFailureFails ==
    \A p \in Callers :
        /\ (AtExit(p) /\ PullFailed(p) # {})
           => /\ result[p].kind = "UpdateFailed"
              /\ {result[p].message} = PullFailed(p)
              /\ FailedAudit(p)
        /\ (AtExit(p) /\ result[p].kind = "success")
           => /\ PullFailed(p) = {}
              /\ "git pull --ff-only" \in Cmds(p)
              /\ Len(updAudit[p]) = 1
              /\ updAudit[p][1].action = "WEBSITE_UPDATE"
        /\ (AtExit(p) /\ QueryFailed(p) # {} /\ PullFailed(p) = {}
                      /\ "git pull --ff-only" \in Cmds(p))
           => result[p].kind = "success"

C12_Witness ==
    \E p \in Callers :
        /\ AtExit(p)
        /\ PullFailed(p) = {"Command failed: git pull --ff-only"}
        /\ QueryFailed(p) = {}
        /\ result[p].kind = "UpdateFailed"

(***************************************************************************)
(* C13  A pull that exceeds its timeout is a failure: the pull always      *)
(* ends, a timed-out invocation reaches its exit with UpdateFailed and a   *)
(* WEBSITE_UPDATE_FAILED audit event, and then returns to the caller with  *)
(* the flag cleared.                                                       *)
(***************************************************************************)
TimedOut(p) == "Command timed out" \in PullFailed(p)

C13_TimeoutIsFailure ==
    \A p \in Callers :
        /\ [](AtExit(p) /\ TimedOut(p)
              => result[p].kind = "UpdateFailed" /\ FailedAudit(p))
        /\ TimedOut(p)
           ~> (pc[p] = "idle" /\ ~isUpdating /\ lastOutcome[p] = "UpdateFailed")

C13_Witness ==
    \E p \in Callers :
        /\ AtExit(p)
        /\ TimedOut(p)
        /\ result[p].kind = "UpdateFailed"
        /\ isUpdating

(***************************************************************************)
(* C14  The only external command the update trigger ever starts is the    *)
(* fast-forward-only pull, in the approved directory.                      *)
(***************************************************************************)
C14_OnlyThePull ==
    \A p \in Callers : \A i \in DOMAIN execs[p] :
        /\ execs[p][i].cmd = "git pull --ff-only"
        /\ execs[p][i].cwd = WEBSITE_MOUNT

(***************************************************************************)
(* What the claims about authentication speak of.                          *)
(***************************************************************************)
HttpRoutes ==
    RouteNames \ {"AuthService.logout", "AuthService.revokeAllSessionsForUser"}

Handler(route) == RouteTable(route).handler

(* getActiveUser(s): what getSessionUser returns now for a request whose   *)
(* cookie names session s.                                                 *)
GetActiveUser(s) ==
    GetSessionUser([suser |-> IF Live(s) THEN store[s].user ELSE NoUserId,
                    srole |-> IF Live(s) THEN store[s].role ELSE NoRole])

GateStep == req.stage = "gate" /\ req'.stage # "gate"

(***************************************************************************)
(* C4  Instant revocation: a getSessionUser call made while the session's  *)
(* user has is_active = false returns none, and AuthGuard rejects the      *)
(* request as Unauthenticated, although the session is still in the store. *)
(***************************************************************************)
C4_InstantRevocation ==
    [][(/\ GateStep
        /\ "AuthGuard" \in RouteTable(req.route).guards
        /\ ~IsPublic(req.route)
        /\ req.suser \in UserIds
        /\ ~users[req.suser].is_active)
       => /\ GetSessionUser(req) = NullUser
          /\ req'.user = NullUser
          /\ req'.stage = "done"
          /\ req'.resp.kind = "Unauthenticated"]_vars

C4_Witness ==
    /\ req.stage = "done"
    /\ req.resp.kind = "Unauthenticated"
    /\ req.suser \in UserIds
    /\ ~users[req.suser].is_active
    /\ Live(req.sid)
    /\ store[req.sid].user = req.suser

(***************************************************************************)
(* C5  After login succeeds for user U with session S, getActiveUser(S)    *)
(* returns U until logout of S, expiry of S or deactivation of U: a step   *)
(* that keeps S in the store and U active keeps getActiveUser(S) = U.      *)
(***************************************************************************)
C5_SameUserUntilLogoutExpiryDeactivation ==
    [][\A s \in SessionIds, u \in UserIds :
          (/\ GetActiveUser(s).id = u
           /\ Live(s)'
           /\ users'[u].is_active)
          => GetActiveUser(s)'.id = u]_vars

(***************************************************************************)
(* C6  As claimed: logout is never an error, whether called on a session   *)
(* that exists or not, also through POST /auth/logout, and the session is  *)
(* gone afterwards.                                                        *)
(***************************************************************************)
C6_LogoutNeverAnError ==
    (req.stage = "done" /\ Handler(req.route) = "logout")
    => /\ req.resp.kind = "LoggedOut"
       /\ GetActiveUser(req.sid) = NullUser

(***************************************************************************)
(* C6, amended  AuthService.logout is never an error, whether the          *)
(* request's session has a user or not and whether its key is still in the *)
(* store or not, and getActiveUser on that session returns none            *)
(* afterwards; a POST /auth/logout request that AuthGuard finds without an *)
(* active session user is rejected as Unauthenticated before logout runs.  *)
(***************************************************************************)
C6_LogoutIdempotentBehindGuard ==
    (req.stage = "done" /\ Handler(req.route) = "logout")
    => IF req.route = "POST /auth/logout" /\ req.user = NullUser
       THEN req.resp.kind = "Unauthenticated"
       ELSE /\ req.resp.kind = "LoggedOut"
            /\ ~Live(req.sid)
            /\ GetActiveUser(req.sid) = NullUser

C6_Witness ==
    /\ req.stage = "done"
    /\ req.route = "AuthService.logout"
    /\ req.suser = NoUserId
    /\ req.resp.kind = "LoggedOut"
    /\ minted > 0
    /\ \A s \in SessionIds : ~Live(s)

(***************************************************************************)
(* C7  On a non-public route with a non-empty requiredRoles set, behind    *)
(* AuthGuard and RolesGuard, an authenticated caller passes if and only if *)
(* its role is a member of requiredRoles; otherwise the answer is          *)
(* Forbidden naming the required roles.  No role implies another.          *)
(***************************************************************************)
RoleChecked(route) ==
    /\ route \in HttpRoutes
    /\ RouteTable(route).guards = BothGuards
    /\ ~IsPublic(route)
    /\ RequiredRoles(route).defined
    /\ RequiredRoles(route).value # {}

C7_RoleMembership ==
    (RoleChecked(req.route) /\ req.user # NullUser)
    => LET member == req.user.role \in RequiredRoles(req.route).value IN
       /\ req.stage \in {"handler", "done"}
       /\ req.stage = "handler" => member
       /\ req.stage = "done" =>
            IF member
            THEN req.resp.kind = "Ok"
            ELSE /\ req.resp.kind = "Forbidden"
                 /\ req.resp.roles = RequiredRoles(req.route).value

C7_Witness ==
    /\ req.route = "manager only"
    /\ req.stage = "done"
    /\ req.user.role = "OWNER"
    /\ req.resp.kind = "Forbidden"
    /\ req.resp.roles = {"MANAGER"}

(***************************************************************************)
(* C8  As claimed: on a route marked public the gate lets every request    *)
(* through to the handler, whatever the session and whatever roles the     *)
(* route requires, without any session or user lookup.                     *)
(***************************************************************************)
C8_PublicAlwaysAllowed ==
    (req.route \in HttpRoutes /\ IsPublic(req.route) /\ req.stage \in {"handler", "done"})
    => /\ req.lookups = {}
       /\ req.resp.kind \notin {"Unauthenticated", "Forbidden"}

(***************************************************************************)
(* C9  On a route not marked public, a request for which getSessionUser    *)
(* returns none fails with Unauthenticated and never reaches the handler,  *)
(* whatever roles the route requires.                                      *)
(***************************************************************************)
C9_NoUserMeansUnauthenticated ==
    (/\ req.route \in HttpRoutes
     /\ ~IsPublic(req.route)
     /\ req.stage \in {"handler", "done"}
     /\ req.user = NullUser)
    => /\ req.stage = "done"
       /\ req.resp.kind = "Unauthenticated"

C9_Witness ==
    /\ req.route = "manager only"
    /\ req.stage = "done"
    /\ req.suser \in UserIds
    /\ req.user = NullUser
    /\ req.resp.kind = "Unauthenticated"

(***************************************************************************)
(* C10  On a non-public route whose requiredRoles is empty or unset, every *)
(* authenticated caller is allowed, whatever its role.                     *)
(***************************************************************************)
C10_NoRolesAllowsAnyAuthenticated ==
    (/\ req.route \in HttpRoutes
     /\ ~IsPublic(req.route)
     /\ ~RequiredRoles(req.route).defined \/ RequiredRoles(req.route).value = {}
     /\ req.user # NullUser)
    => /\ req.stage \in {"handler", "done"}
       /\ req.resp.kind \notin {"Unauthenticated", "Forbidden"}

C10_Witness ==
    /\ req.route = "empty roles"
    /\ req.stage = "done"
    /\ req.user.role = "KITCHEN"
    /\ req.resp.kind = "Ok"

(***************************************************************************)
(* A login as a step: the handler of a login request runs to its answer.   *)
(* LoginUser is the record the lookup by email finds before the step.      *)
(***************************************************************************)
LoginStep ==
    /\ req.stage = "handler"
    /\ Handler(req.route) = "login"
    /\ req'.stage = "done"

LoginUser == FindUniqueByEmail(LookupKey(req'.dto.email))

LoginDone == req.stage = "done" /\ Handler(req.route) = "login"

(***************************************************************************)
(* C15  A failed audit write never changes what the emitting operation     *)
(* answers or leaves behind: whatever the fate of the write, a login that  *)
(* logged USER_LOGIN returns its session, one that logged                  *)
(* USER_LOGIN_FAILED answers InvalidCredentials, a logout answers          *)
(* normally with its session destroyed, a revocation answers normally, an  *)
(* update that logged WEBSITE_UPDATE returns success and one that logged   *)
(* WEBSITE_UPDATE_FAILED throws UpdateFailed, both with the flag still     *)
(* held for the finally block to clear.                                    *)
(***************************************************************************)
Answer(action) ==
    CASE action = "USER_LOGIN" -> "LoginOk"
      [] action = "USER_LOGIN_FAILED" -> "InvalidCredentials"
      [] action = "USER_LOGOUT" -> "LoggedOut"
      [] action = "USER_SESSIONS_REVOKED" -> "Revoked"
      [] action = "WEBSITE_UPDATE" -> "success"
      [] action = "WEBSITE_UPDATE_FAILED" -> "UpdateFailed"

C15_AuditFailureChangesNothing ==
    /\ (req.stage = "done" /\ req.audit # <<>>)
       => /\ Len(req.audit) = 1
          /\ req.resp.kind = Answer(req.audit[1].action)
          /\ req.audit[1].action = "USER_LOGIN" =>
                /\ req.resp.sessionId = req.sid
                /\ req.sid \in SessionIds
          /\ req.audit[1].action = "USER_LOGOUT" => ~Live(req.sid)
    /\ \A p \in Callers :
         /\ updAudit[p] # <<>>
            => /\ AtExit(p)
               /\ isUpdating
               /\ Len(updAudit[p]) = 1
               /\ result[p].kind = Answer(updAudit[p][1].action)
         /\ lastOutcome[p] \in {"none", "UpdateInProgress", "success", "UpdateFailed"}

C15_Witness ==
    /\ req.stage = "done"
    /\ req.audit # <<>>
    /\ req.audit[1].action = "USER_LOGIN"
    /\ ~req.audit[1].written
    /\ req.resp.kind = "LoginOk"
    /\ Live(req.resp.sessionId)

(***************************************************************************)
(* C16  Every login that ends in InvalidCredentials has made exactly one   *)
(* hash verification, against the placeholder hash when the email is       *)
(* unknown and against the user's hash otherwise, and the two answers are  *)
(* the same.                                                               *)
(***************************************************************************)
C16_OneVerificationPerInvalidCredentials ==
    (LoginDone /\ req.resp.kind = "InvalidCredentials")
    => /\ Len(req.verifies) = 1
       /\ req.verifies[1] = "placeholder" <=> req.dto.email = NobodyEmail
       /\ req.resp = Rejection("InvalidCredentials", {})

C16_Witness ==
    /\ LoginDone
    /\ req.dto.email = NobodyEmail
    /\ req.resp.kind = "InvalidCredentials"
    /\ req.verifies = <<"placeholder">>

C18_WrongPasswordAuditedOnce ==
    [][(LoginStep /\ LoginUser # NullUser /\ LoginUser.is_active
                  /\ ~req'.dto.passwordValid)
       => /\ req'.resp.kind = "InvalidCredentials"
          /\ Len(req'.audit) = 1
          /\ req'.audit[1].action = "USER_LOGIN_FAILED"
          /\ req'.audit[1].resourceId = LoginUser.id
          /\ store' = store
          /\ minted' = minted
          /\ users' = users]_vars

C18_Witness ==
    /\ LoginDone
    /\ req.dto = [email |-> BobEmail, passwordValid |-> FALSE]
    /\ req.resp.kind = "InvalidCredentials"
    /\ Len(req.audit) = 1
    /\ Live(req.sid)

(***************************************************************************)
(* C19  A successful login for user U stores a payload equal to U's id,    *)
(* email, role, first name and last name as they are at the login, sets    *)
(* U's last-login timestamp, emits one USER_LOGIN audit event with U as    *)
(* actor, and returns that payload with the id it is stored under.         *)
(***************************************************************************)
C19_SuccessfulLoginEffects ==
    [][(LoginStep /\ req'.resp.kind = "LoginOk")
       => LET U == LoginUser.id
              S == req'.resp.sessionId
              payload == req'.resp.payload
          IN  /\ U \in UserIds
              /\ payload = [id |-> U, email |-> users[U].email, role |-> users[U].role,
                            firstName |-> users[U].first_name,
                            lastName |-> users[U].last_name]
              /\ S \in SessionIds
              /\ store'[S] = [user |-> payload.id, role |-> payload.role,
                              email |-> payload.email, firstName |-> payload.firstName,
                              lastName |-> payload.lastName, ttl |-> SessionMaxAge]
              /\ \A s \in SessionIds \ {S} : store'[s] = store[s]
              /\ users'[U].last_login_at = "set"
              /\ \A u \in UserIds \ {U} : users'[u] = users[u]
              /\ Len(req'.audit) = 1
              /\ req'.audit[1].action = "USER_LOGIN"
              /\ req'.audit[1].performedById = U
              /\ req'.audit[1].resourceId = U]_vars

C19_Witness ==
    /\ LoginDone
    /\ req.resp.kind = "LoginOk"
    /\ req.resp.payload.id = "alice"
    /\ req.resp.payload.role = "MANAGER"
    /\ req.resp.payload.email = AliceEmail
    /\ store[req.resp.sessionId].user = "alice"
    /\ users["alice"].last_login_at = "set"

(***************************************************************************)
(* C20  Every successful login persists its payload under a newly minted   *)
(* session id: the id returned was not a key of the session store before   *)
(* the login, and no existing session's payload is overwritten.            *)
(***************************************************************************)
C20_LoginMintsFreshId ==
    [][(LoginStep /\ req'.resp.kind = "LoginOk")
       => /\ ~Live(req'.resp.sessionId)
          /\ req'.resp.sessionId > minted
          /\ \A s \in SessionIds : Live(s) => store'[s] = store[s]]_vars

(***************************************************************************)
(* C21  Login matches the e-mail address case- and whitespace-             *)
(* insensitively: for every stored address e and every input that differs  *)
(* from e only in letter case or in leading or trailing white space, a     *)
(* login with the correct password succeeds for the user stored under e.   *)
(***************************************************************************)
C21_EmailMatchIgnoresCaseAndPadding ==
    \A u \in UserIds :
        (/\ LoginDone
         /\ req.dto.passwordValid
         /\ req.fault = "none"
         /\ req.dto.email \in VariantsOf[users[u].email])
        => /\ req.resp.kind = "LoginOk"
           /\ req.resp.user = u
           /\ req.resp.payload.email = users[u].email

C21_Witness ==
    /\ LoginDone
    /\ req.dto = [email |-> <<" ", "A", "@", "X", "\t">>, passwordValid |-> TRUE]
    /\ req.resp.kind = "LoginOk"
    /\ req.resp.user = "alice"

(***************************************************************************)
(* C22  revokeAllSessionsForUser has an audit record as its only           *)
(* observable effect: it leaves the session store and every user record    *)
(* unchanged, so every session of the target user still exists afterwards. *)
(***************************************************************************)
RevokeStep ==
    /\ req.stage = "handler"
    /\ Handler(req.route) = "revoke"
    /\ req'.stage = "done"

ReadStep(s) == req.stage = "idle" /\ req'.stage = "gate" /\ req'.sid = s

TimePasses == req' = req /\ users' = users /\ store' # store

C23_RollingExpiry ==
    /\ [](\A s \in SessionIds :
            /\ store[s].ttl \in 0..SessionMaxAge
            /\ ~Live(s) => GetActiveUser(s) = NullUser)
    /\ [][\A s \in SessionIds :
            /\ (LoginStep /\ req'.resp.kind = "LoginOk" /\ req'.resp.sessionId = s)
               => store'[s].ttl = SessionMaxAge
            /\ ReadStep(s) => Live(s) /\ store'[s].ttl = SessionMaxAge
            /\ store'[s].ttl > store[s].ttl => ReadStep(s) \/ LoginStep
            /\ (TimePasses /\ Live(s))
               => /\ store'[s].ttl = store[s].ttl - 1
                  /\ store[s].ttl = 1 => store'[s] = NoSession]_vars

C23_Witness ==
    /\ req.stage = "gate"
    /\ req.sid = 1
    /\ req.suser = "alice"
    /\ users["alice"].is_active
    /\ store[1] = NoSession
    /\ GetActiveUser(1) = NullUser

(***************************************************************************)
(* C24  logout unconditionally deletes the session, and emits a            *)
(* USER_LOGOUT audit event carrying the id of the session's user if and    *)
(* only if the session held a payload before the delete.                   *)
(***************************************************************************)
LogoutDone ==
    /\ req.stage = "done"
    /\ Handler(req.route) = "logout"
    /\ req.resp.kind = "LoggedOut"

C24_LogoutDeletesAndAudits ==
    LogoutDone
    => /\ ~Live(req.sid)
       /\ req.sid \in SessionIds => store[req.sid] = NoSession
       /\ IF req.suser # NoUserId
          THEN /\ Len(req.audit) = 1
               /\ req.audit[1].action = "USER_LOGOUT"
               /\ req.audit[1].resourceId = req.suser
               /\ req.audit[1].performedById = req.suser
          ELSE req.audit = <<>>

C24_Witness ==
    /\ LogoutDone
    /\ req.sid = 1
    /\ req.suser = "alice"
    /\ req.audit # <<>>
    /\ req.audit[1].action = "USER_LOGOUT"
    /\ store[1] = NoSession
    /\ Live(2)

(***************************************************************************)
(* C25  getActiveUser(S) returns a user if and only if S has a payload in  *)
(* the session store and the user record with the payload's id exists and  *)
(* is active at the time of the call; the value returned is the live user  *)
(* record (current role and fields), never the cached payload.             *)
(***************************************************************************)
C25_ActiveUserIsLiveRecord ==
    \A s \in SessionIds :
        LET got == GetActiveUser(s)
            id == store[s].user
        IN  /\ got # NullUser <=> (Live(s) /\ id \in UserIds /\ users[id].is_active)
            /\ got # NullUser
               => got = [id |-> id, role |-> users[id].role,
                         is_active |-> users[id].is_active]

C25_Witness ==
    /\ Live(1)
    /\ store[1].user = "alice"
    /\ store[1].role = "FRONT_DESK"
    /\ users["alice"].role = "MANAGER"
    /\ GetActiveUser(1) = [id |-> "alice", role |-> "MANAGER", is_active |-> TRUE]

(***************************************************************************)
(* C26  On success the gate attaches the freshly looked-up user record to  *)
(* the request, and the role decision uses that record's current role:     *)
(* after a user's role is changed in the user store, the next request on   *)
(* an existing session is authorized by the new role, not by the role in   *)
(* the session payload.                                                    *)
(***************************************************************************)
C26_RoleDecisionUsesCurrentRole ==
    [][(/\ GateStep
        /\ "AuthGuard" \in RouteTable(req.route).guards
        /\ ~IsPublic(req.route)
        /\ req.suser # NoUserId
        /\ users[req.suser].is_active)
       => LET required == RequiredRoles(req.route) IN
          /\ req'.user = [id |-> req.suser, role |-> users[req.suser].role,
                          is_active |-> TRUE]
          /\ ("RolesGuard" \in RouteTable(req.route).guards
                /\ required.defined /\ required.value # {})
             => (req'.stage = "handler" <=> users[req.suser].role \in required.value)]_vars

C26_Witness ==
    /\ req.stage = "done"
    /\ req.route = "manager only"
    /\ req.srole = "FRONT_DESK"
    /\ req.user.role = "MANAGER"
    /\ req.resp.kind = "Ok"

(***************************************************************************)
(* C27  getWebsiteStatus performs the same path validation as              *)
(* triggerUpdate before any read, and is read-only with respect to the     *)
(* trigger's state: it never sets or clears the in-progress flag and is    *)
(* never rejected because an update is in progress, in any interleaving    *)
(* with triggerUpdate calls.                                               *)
(***************************************************************************)
StatusStep == status' # status

C27_StatusValidatesAndOnlyReads ==
    /\ [](/\ status.reads # <<>> => status.validation = NoError
          /\ status.pc \in {"read", "stat"} => status.validation = NoError
          /\ status.outcome \in {"none", "ok"} \cup ValidationErrors
          /\ status.outcome \in ValidationErrors => status.reads = <<>>)
    /\ [][StatusStep
           => /\ UNCHANGED <<isUpdating, pc, updLocals, updTrace, updEnv>>
              /\ status.pc = "validate"
                 => /\ status'.validation = ValidateMountPoint(WEBSITE_MOUNT)
                    /\ status'.pc = "read" <=> ValidateMountPoint(WEBSITE_MOUNT) = NoError
              /\ status.pc = "idle" => status'.pc = "validate"]_vars

C27_Witness ==
    /\ status.pc = "done"
    /\ status.outcome = "ok"
    /\ Len(status.reads) = 3
    /\ isUpdating
    /\ pc[1] = "pull"

(***************************************************************************)
(* C28  When triggerUpdate runs on the approved path and the pull changes  *)
(* nothing ('Already up to date'), it returns success = true, the revision *)
(* captured before equals the revision captured after, and a               *)
(* WEBSITE_UPDATE (not FAILED) audit event records both revisions.         *)
(***************************************************************************)
NothingPulled(p) ==
    \E i \in DOMAIN execs[p] :
        /\ execs[p][i].cmd = "git pull --ff-only"
        /\ execs[p][i].output = "Already up to date."

CommitQueryFailed(p) == Failed(p, {"git rev-parse --short HEAD"})

UpdateAudit(p) ==
    /\ Len(updAudit[p]) = 1
    /\ updAudit[p][1].action = "WEBSITE_UPDATE"
    /\ updAudit[p][1].oldCommit = beforeCommit[p]
    /\ updAudit[p][1].newValue.commit = afterCommit[p]

C29_SaveFailureIsFatal ==
    [][(LoginStep /\ req'.fault = "save")
       => /\ req'.resp.kind = "SessionStoreUnavailable"
          /\ req'.resp.sessionId = NoSessionId
          /\ users' = users
          /\ store' = store
          /\ req'.touched = {}
          /\ \A i \in DOMAIN req'.audit : req'.audit[i].action # "USER_LOGIN"]_vars

C29_Witness ==
    /\ LoginDone
    /\ req.fault = "save"
    /\ req.dto = [email |-> AliceEmail, passwordValid |-> TRUE]
    /\ req.resp.kind = "SessionStoreUnavailable"
    /\ users["alice"].last_login_at = "never"
    /\ req.audit = <<>>

(***************************************************************************)
(* C30  Within one invocation of triggerUpdate the steps occur in this     *)
(* order: set flag, validate, capture before, pull, capture after and      *)
(* branch, record audit, clear flag; no external process is started before *)
(* validation has passed, and the flag is still set while the audit event  *)
(* is being recorded.                                                      *)
(***************************************************************************)
StepOrder ==
    <<"git rev-parse --short HEAD", "git pull --ff-only", "git rev-parse --short HEAD",
      "git rev-parse --abbrev-ref HEAD">>

Successors(position) ==
    CASE position = "idle" -> {"validate"}
      [] position = "validate" -> {"before", "catch"}
      [] position = "before" -> {"pull"}
      [] position = "pull" -> {"after", "catch"}
      [] position = "after" -> {"branch"}
      [] position = "branch" -> {"audit"}
      [] position = "audit" -> {"finally", "catch"}
      [] position = "catch" -> {"finally"}
      [] position = "finally" -> {"idle"}

Started(p) ==
    CASE pc[p] \in {"idle", "validate", "before"} -> 0
      [] pc[p] = "pull" -> 1
      [] pc[p] = "after" -> 2
      [] pc[p] = "branch" -> 3
      [] pc[p] = "audit" -> 4
      [] OTHER -> Len(execs[p])

C30_StepsInOrder ==
    /\ [](\A p \in Callers :
            /\ pc[p] # "idle" => isUpdating
            /\ Len(execs[p]) <= Len(StepOrder)
            /\ Len(execs[p]) = Started(p)
            /\ \A i \in DOMAIN execs[p] : execs[p][i].cmd = StepOrder[i]
            /\ pc[p] \in {"validate", "before", "pull", "after", "branch", "audit", "catch"}
               => updAudit[p] = <<>>
            /\ pc[p] = "finally" => Len(updAudit[p]) = 1)
    /\ [][\A p \in Callers :
            /\ pc'[p] # pc[p] => pc'[p] \in Successors(pc[p])
            /\ (pc[p] = "idle" /\ pc'[p] # "idle") => ~isUpdating /\ isUpdating'
            /\ (pc[p] = "validate" /\ pc'[p] = "before")
               => ValidateMountPoint(WEBSITE_MOUNT) = NoError
            /\ (pc[p] = "validate" /\ pc'[p] = "catch")
               => ValidateMountPoint(WEBSITE_MOUNT) # NoError
            /\ execs'[p] # execs[p] => pc'[p] # pc[p]
            /\ updAudit'[p] # updAudit[p] /\ updAudit'[p] # <<>>
               => isUpdating /\ isUpdating' /\ pc[p] \in {"audit", "catch"}
            /\ (pc[p] = "finally" /\ pc'[p] = "idle") => isUpdating /\ ~isUpdating'
            /\ isUpdating' # isUpdating
               => \E q \in Callers : pc'[q] # pc[q] /\ "idle" \in {pc[q], pc'[q]}]_vars

C30_Witness ==
    /\ pc[1] = "finally"
    /\ isUpdating
    /\ Len(execs[1]) = 4
    /\ result[1].kind = "success"
    /\ Len(updAudit[1]) = 1
    /\ updAudit[1][1].action = "WEBSITE_UPDATE"

(***************************************************************************)
(* C31  A triggerUpdate call rejected with UpdateInProgress has no side    *)
(* effect: it leaves the in-progress flag set (it does not clear the flag  *)
(* held by the running invocation), invokes no validation and no external  *)
(* process, and emits no audit event.                                      *)
(***************************************************************************)
C31_RejectedCallChangesNothing ==
    [][\A p \in Callers :
          (CallStep(p) /\ Rejected(p))
          => /\ isUpdating /\ isUpdating'
             /\ pc' = pc
             /\ execs' = execs
             /\ updAudit' = updAudit
             /\ UNCHANGED <<updLocals, result, updEnv, status>>
             /\ \A q \in Callers \ {p} : lastOutcome'[q] = lastOutcome[q]]_vars

C31_Witness ==
    /\ lastOutcome[2] = "UpdateInProgress"
    /\ pc[2] = "idle"
    /\ pc[1] = "pull"
    /\ isUpdating
    /\ Len(execs[1]) = 1
    /\ execs[2] = <<>>
    /\ updAudit[2] = <<>>

(***************************************************************************)
(* C32  In every reachable state the in-progress flag is true if and only  *)
(* if exactly one triggerUpdate invocation is between its flag-set step    *)
(* and its cleanup step; the flag is never false while an invocation is    *)
(* validating, pulling or auditing.                                        *)
(***************************************************************************)
C32_FlagIffOneInvocation ==
    /\ isUpdating <=> Cardinality(InFlight) = 1
    /\ ~isUpdating => InFlight = {}
    /\ \A p \in Callers :
         pc[p] \in {"validate", "before", "pull", "after", "branch", "audit", "catch",
                    "finally"}
         => isUpdating /\ InFlight = {p}

C32_Witness ==
    /\ isUpdating
    /\ InFlight = {2}
    /\ pc[2] = "catch"
    /\ error[2] = "Command timed out"
    /\ lastOutcome[1] = "UpdateInProgress"

(***************************************************************************)
(* C33  Every triggerUpdate invocation that passes the in-progress check   *)
(* attempts exactly one audit write before it completes: WEBSITE_UPDATE if *)
(* and only if it returns a success result, WEBSITE_UPDATE_FAILED if and   *)
(* only if it throws (path-validation failures included); WEBSITE_UPDATE   *)
(* is never emitted for an invocation in which the pull was not invoked.   *)
(***************************************************************************)
AuditActions(p) == {updAudit[p][i].action : i \in DOMAIN updAudit[p]}

C33_OneAuditWritePerInvocation ==
    /\ [](\A p \in Callers :
            /\ Len(updAudit[p]) <= 1
            /\ "WEBSITE_UPDATE" \in AuditActions(p) => "git pull --ff-only" \in Cmds(p))
    /\ [][\A p \in Callers :
            ExitStep(p)
            => /\ Len(updAudit[p]) = 1
               /\ lastOutcome'[p] \in {"success", "UpdateFailed"}
               /\ lastOutcome'[p] = "success" <=> AuditActions(p) = {"WEBSITE_UPDATE"}
               /\ lastOutcome'[p] = "UpdateFailed"
                  <=> AuditActions(p) = {"WEBSITE_UPDATE_FAILED"}]_vars

C33_Witness ==
    /\ AtExit(1)
    /\ error[1] = "Website directory is not a git repository"
    /\ execs[1] = <<>>
    /\ result[1].kind = "UpdateFailed"
    /\ AuditActions(1) = {"WEBSITE_UPDATE_FAILED"}
    /\ Len(updAudit[1]) = 1

(***************************************************************************)
(* C34  Deactivation does not delete or invalidate session entries: if a   *)
(* user is deactivated and later re-activated, a session of that user      *)
(* created before the deactivation, and neither logged out nor expired, is *)
(* accepted again by getActiveUser from the first request after            *)
(* re-activation.                                                          *)
(***************************************************************************)
Deactivated(u) == users[u].is_active /\ ~users'[u].is_active

Reactivated(u) == ~users[u].is_active /\ users'[u].is_active

LogoutStep ==
    /\ req.stage = "handler"
    /\ Handler(req.route) = "logout"
    /\ req'.stage = "done"

C35_LogoutRemovesOnlyItsSession ==
    [][LogoutStep
       => /\ users' = users
          /\ minted' = minted
          /\ \A s \in SessionIds \ {req.sid} :
                /\ store'[s] = store[s]
                /\ GetActiveUser(s)' = GetActiveUser(s)
          /\ req.sid \in SessionIds => store'[req.sid] = NoSession]_vars

C35_Witness ==
    /\ LogoutDone
    /\ req.sid = 1
    /\ req.suser = "alice"
    /\ store[1] = NoSession
    /\ Live(2)
    /\ store[2].user = "alice"
    /\ GetActiveUser(2).id = "alice"

(***************************************************************************)
(* C36  A login that fails for any reason (unknown email, inactive         *)
(* account, wrong password, session-store failure, or failure of the       *)
(* last-login update in the user store) leaves no session for that attempt *)
(* in the session store: a session entry with a user payload exists only   *)
(* if the login that created it returned success.                          *)
(***************************************************************************)
C36_FailedLoginLeavesNoSession ==
    [][(LoginStep /\ req'.resp.kind # "LoginOk")
       => /\ store' = store
          /\ minted' = minted]_vars

====
